---------------------------- MODULE Spec2Model ----------------------------
(***************************************************************************)
(* Model of email-expirer.py: the label-based countdown machine            *)
(* (setup, add_inbox_expiration, strip_tags_on_archived_emails,            *)
(* step_expiration) and the age annotator (append_too_old_labels), run     *)
(* against a mail store holding a label list and, per thread, a set of     *)
(* label identifiers.  Every remote call that mutates the store is one     *)
(* step of the model; a pass is the sequence of its steps.                 *)
(*                                                                         *)
(* A label name is the sequence of its characters, so that formatting      *)
(* (f"x{i}", f"{age}d") and the age-label regular expression are modelled  *)
(* on characters.  The hourglass character of LABEL_PREFIX is written as   *)
(* the one-character token "hourglass".                                    *)
(***************************************************************************)
EXTENDS Integers, Sequences, FiniteSets, TLC

(***************************************************************************)
(* Bounds of the model.                                                    *)
(***************************************************************************)
\* Number of threads in the mailbox.
NumThreads == 2

\* INBOX_DAYS of the source (line 25) is 7; the model counts down from a
\* smaller window so that whole countdowns are explored.
INBOX_DAYS == 2

\* PAGE_SIZE of the source (line 28) is 100; the model pages by a smaller
\* size so that result sets span several pages.
PAGE_SIZE == 1

(***************************************************************************)
(* Program constants.                                                      *)
(***************************************************************************)
MIN_AGE_TO_APPEND_LABEL == 21

LABEL_PREFIX == <<"hourglass", "/">>

AUTO_ARCHIVED == <<"a", "u", "t", "o", "-", "a", "r", "c", "h", "i", "v", "e", "d">>

INBOX == "INBOX"

STARRED == "STARRED"

\* Python's None, as a label identifier or a page token.
None == "None"

Threads == 1..NumThreads

Buckets == 0..INBOX_DAYS

\* The process of a sequential run, and a second run of the program against
\* the same mailbox.
Main == "main"

Other == "other"

Procs == {Main, Other}

(***************************************************************************)
(* Formatting.                                                             *)
(***************************************************************************)
DigitChars == <<"0", "1", "2", "3", "4", "5", "6", "7", "8", "9">>

\* str(n) for n >= 0: the decimal digits of n.
RECURSIVE Str(_)
Str(n) ==
    IF n < 10 THEN <<DigitChars[n + 1]>>
    ELSE Str(n \div 10) \o <<DigitChars[(n % 10) + 1]>>

\* f"x{i}"
XName(i) == <<"x">> \o Str(i)

(***************************************************************************)
(* The mail store: labels (list, create, delete) and threads (list,        *)
(* modify).  labelStore is the store's label list, threadLabels the label  *)
(* identifiers attached to each thread, internalDate the day of each        *)
(* thread's last message and now the current day (both in whole days, the  *)
(* unit date_diff_in_days compares in).                                    *)
(***************************************************************************)
VARIABLES labelStore, threadLabels, internalDate, now, pc, loc, cur, before, steps, manual,
          failures

vars == <<labelStore, threadLabels, internalDate, now, pc, loc, cur, before, steps, manual,
          failures>>

mailbox == <<labelStore, threadLabels, internalDate, now>>

history == <<cur, before, steps, manual, failures>>

SystemLabels == {INBOX, STARRED}

LabelIds(store) == {store[k].id : k \in DOMAIN store}

LabelNames(store) == {store[k].name : k \in DOMAIN store}

\* The identifiers of the labels of the store that carry the name.
IdsNamed(store, name) == {store[k].id : k \in {j \in DOMAIN store : store[j].name = name}}

\* A lookup that finds no label.
get_label_id_blind(store, name) == None

\* get_label_id: the identifier of the first listed label with the name.
get_label_id(store, name) ==
    LET hits == {k \in DOMAIN store : store[k].name = name}
    IN  IF hits = {} THEN None
        ELSE store[CHOOSE k \in hits : \A j \in hits : k <= j].id

\* The identifier the store gives a new label: the first one not in use.
NewLabelId(store) ==
    LET free == {k \in 1..(Len(store) + 1) : ("Label_" \o ToString(k)) \notin LabelIds(store)}
    IN  "Label_" \o ToString(CHOOSE k \in free : \A j \in free : k <= j)

\* labels().create(body={"name": name})
labels_create(store, name) == Append(store, [id |-> NewLabelId(store), name |-> name])

\* labels().delete(id=id): the label leaves the list ...
labels_delete(store, id) == SelectSeq(store, LAMBDA l : l.id # id)

\* ... and every thread that carried it.
labels_detach(tl, id) == [t \in Threads |-> tl[t] \ {id}]

\* Whether threads().modify accepts the identifiers: each is a system label
\* or a label of the store (None, the result of get_label_id for a missing
\* label, is neither, and the call raises).
ValidIds(store, ids) == ids \subseteq (LabelIds(store) \cup SystemLabels)

\* A modify that attaches and forgets to remove.
threads_modify_keeping(tl, t, add, remove) == [tl EXCEPT ![t] = @ \cup add]

\* threads().modify(id=t, body={"addLabelIds": add, "removeLabelIds": remove})
threads_modify(tl, t, add, remove) == [tl EXCEPT ![t] = (@ \ remove) \cup add]

\* Whether the thread carries a label with the name.
HasLabel(store, tl, t, name) == IdsNamed(store, name) \cap tl[t] # {}

\* A query is a conjunction of terms: in:inbox / -in:inbox, -is:starred,
\* label:n for each n of "label", -label:n for each n of "notLabel".
Matches(store, tl, q, t) ==
    /\ (q.inbox = "in") => INBOX \in tl[t]
    /\ (q.inbox = "out") => INBOX \notin tl[t]
    /\ q.notStarred => STARRED \notin tl[t]
    /\ \A n \in q.label : HasLabel(store, tl, t, n)
    /\ \A n \in q.notLabel : ~HasLabel(store, tl, t, n)

\* The threads matching a query, in the order the store serves them.
RECURSIVE Ascending(_)
Ascending(S) ==
    IF S = {} THEN <<>>
    ELSE LET m == CHOOSE x \in S : \A y \in S : x <= y
         IN  <<m>> \o Ascending(S \ {m})

SearchResults(store, tl, q) == Ascending({t \in Threads : Matches(store, tl, q, t)})

\* The store's answer to threads().list(maxResults, pageToken) on a result
\* set: one page of at most maxResults threads and the token of the next
\* page, 0 standing for no token.
threads_page(all, maxResults, page_token) ==
    LET first == page_token + 1
        last == IF first + maxResults - 1 < Len(all) THEN first + maxResults - 1 ELSE Len(all)
    IN  [threads |-> SubSeq(all, first, last),
         nextPageToken |-> IF last < Len(all) THEN last ELSE 0]

\* threads().list(q, maxResults=PAGE_SIZE, pageToken)
threads_list(store, tl, q, page_token) ==
    threads_page(SearchResults(store, tl, q), PAGE_SIZE, page_token)

RECURSIVE fetch_loop(_, _, _, _, _)
fetch_loop(store, tl, q, threads, page_token) ==
    LET response == threads_list(store, tl, q, page_token)
        extended == threads \o response.threads
    IN  IF response.nextPageToken = 0 THEN extended
        ELSE fetch_loop(store, tl, q, extended, response.nextPageToken)

fetch_all_threads(store, tl, q) == fetch_loop(store, tl, q, <<>>, 0)

(***************************************************************************)
(* The queries of the passes.                                              *)
(***************************************************************************)
\* The query without its -label terms.
AssignQueryLabelled ==
    [inbox |-> "in", notStarred |-> TRUE, label |-> {}, notLabel |-> {}]

\* The query without its -is:starred term.
AssignQueryStarred ==
    [inbox |-> "in", notStarred |-> FALSE, label |-> {}, notLabel |-> {XName(i) : i \in Buckets}]

\* "in:inbox -is:starred -label:x0 ... -label:xN"
AssignQuery ==
    [inbox |-> "in", notStarred |-> TRUE, label |-> {}, notLabel |-> {XName(i) : i \in Buckets}]

\* The query without its -in:inbox term.
StripQueryAnywhere(i) ==
    [inbox |-> "any", notStarred |-> FALSE, label |-> {XName(i)}, notLabel |-> {}]

\* f"-in:inbox label:x{i}"
StripQuery(i) ==
    [inbox |-> "out", notStarred |-> FALSE, label |-> {XName(i)}, notLabel |-> {}]

\* The query with the terms of the inbox and the star of assign-new added.
StepQueryUnstarred(i) ==
    [inbox |-> "in", notStarred |-> TRUE, label |-> {XName(i)}, notLabel |-> {}]

\* f"label:x{i}"
StepQuery(i) ==
    [inbox |-> "any", notStarred |-> FALSE, label |-> {XName(i)}, notLabel |-> {}]

\* "in:inbox"
InboxQuery ==
    [inbox |-> "in", notStarred |-> FALSE, label |-> {}, notLabel |-> {}]

\* day_labels(): bucket index -> identifier of x{i}, None when missing.
day_labels(store) == [i \in Buckets |-> get_label_id(store, XName(i))]

(***************************************************************************)
(* Local state of a pass, and the record of the last passes.               *)
(*                                                                         *)
(* pc[p] is "idle" between passes and otherwise names the mutating call    *)
(* the pass is about to make; loc[p] holds the pass's local variables.     *)
(* The calls that only read (labels().list, threads().list, threads().get) *)
(* are taken together with the mutating call they follow.                  *)
(*                                                                         *)
(* cur and before record the last pass and, when it ran the same           *)
(* operation, the one before it: the operation, how it ended, the store    *)
(* as it was when the pass began, and the number of threads in the first   *)
(* list it fetched that was not empty.  steps counts, per thread, the     *)
(* step passes completed since the thread was admitted (-1: not in the     *)
(* countdown); manual records that the user archived the thread; failures  *)
(* counts the transport failures so far.                                   *)
(***************************************************************************)
NoLabels == [i \in Buckets |-> None]

InitLoc ==
    [k |-> 0, i |-> 0, label_id |-> None, labels |-> NoLabels, auto_label |-> None,
     threads |-> <<>>, matching_labels |-> <<>>, age |-> 0,
     query |-> InboxQuery, maxResults |-> PAGE_SIZE, page_token |-> 0, pages |-> <<>>,
     listed |-> <<>>]

NoMailbox == [store |-> <<>>, tl |-> [t \in Threads |-> {}]]

NoPass == [op |-> "none", status |-> "none", pre |-> NoMailbox, fetched |-> 0]

Snapshot == [store |-> labelStore, tl |-> threadLabels]

\* The pass that was current when a new pass of operation op begins: kept
\* when it ran the same operation, with the store it began from when it was
\* aborted.
Earlier(op) ==
    IF cur.op # op THEN NoPass
    ELSE IF cur.status = "aborted" THEN cur
    ELSE [cur EXCEPT !.pre = NoMailbox]

Idle(p) == pc[p] = "idle"

\* The pass leaves its loop: it returns (status "done") or an exception
\* propagates (status "aborted").
Leave(p, status) ==
    /\ pc' = [pc EXCEPT ![p] = "idle"]
    /\ loc' = [loc EXCEPT ![p] = InitLoc]
    /\ cur' = [cur EXCEPT !.status = status]

InitRun ==
    /\ pc = [p \in Procs |-> "idle"]
    /\ loc = [p \in Procs |-> InitLoc]
    /\ cur = NoPass
    /\ before = NoPass
    /\ steps = [t \in Threads |-> -1]
    /\ manual = [t \in Threads |-> FALSE]
    /\ failures = 0

(***************************************************************************)
(* Initial state: no labels created yet, every thread in or out of the     *)
(* inbox, starred or not, and holding no other label.                      *)
(***************************************************************************)
Init ==
    /\ labelStore = <<>>
    /\ threadLabels \in [Threads -> SUBSET SystemLabels]
    /\ internalDate = [t \in Threads |-> 0]
    /\ now = 0
    /\ InitRun

(***************************************************************************)
(* setup (lines 49-54): create_label_if_missing for x0..xN and             *)
(* auto-archived; loc.i = INBOX_DAYS + 1 stands for auto-archived.         *)
(***************************************************************************)
SetupName(i) == IF i <= INBOX_DAYS THEN XName(i) ELSE AUTO_ARCHIVED

\* The first name from i on that get_label_id does not find, INBOX_DAYS + 2
\* when every name is found.
SetupMissing(store, i) ==
    LET missing == {j \in i..(INBOX_DAYS + 1) : get_label_id(store, SetupName(j)) = None}
    IN  IF missing = {} THEN INBOX_DAYS + 2
        ELSE CHOOSE j \in missing : \A k \in missing : j <= k

\* setup is entered: the names are checked up to the first missing one.
SetupStart(p) ==
    /\ Idle(p)
    /\ LET j == SetupMissing(labelStore, 0)
       IN  IF j = INBOX_DAYS + 2
           THEN /\ cur' = [op |-> "setup", status |-> "done", pre |-> Snapshot,
                         fetched |-> 0]
                /\ UNCHANGED <<pc, loc>>
           ELSE /\ cur' = [op |-> "setup", status |-> "running", pre |-> Snapshot,
                         fetched |-> 0]
                /\ pc' = [pc EXCEPT ![p] = "setup_create"]
                /\ loc' = [loc EXCEPT ![p].i = j, ![p].listed = labelStore]
    /\ before' = Earlier("setup")
    /\ UNCHANGED <<mailbox, steps, manual, failures>>

\* create_label_if_missing: labels().create, then the checks of the names
\* that follow.
SetupCreate(p) ==
    /\ pc[p] = "setup_create"
    /\ labelStore' = labels_create(labelStore, SetupName(loc[p].i))
    /\ LET j == SetupMissing(labelStore', loc[p].i + 1)
       IN  IF j = INBOX_DAYS + 2
           THEN Leave(p, "done")
           ELSE /\ loc' = [loc EXCEPT ![p].i = j, ![p].listed = labelStore']
                /\ UNCHANGED <<pc, cur>>
    /\ UNCHANGED <<threadLabels, internalDate, now, before, steps, manual, failures>>

(***************************************************************************)
(* add_inbox_expiration (lines 88-104).                                    *)
(***************************************************************************)
\* The pass is entered: get_label_id and fetch_all_threads.
AssignStart(p) ==
    /\ Idle(p)
    /\ LET label_id == get_label_id(labelStore, XName(INBOX_DAYS))
           threads == fetch_all_threads(labelStore, threadLabels, AssignQuery)
       IN  IF threads = <<>>
           THEN /\ cur' = [op |-> "assign", status |-> "done", pre |-> Snapshot,
                         fetched |-> 0]
                /\ UNCHANGED <<pc, loc>>
           ELSE /\ cur' = [op |-> "assign", status |-> "running", pre |-> Snapshot,
                         fetched |-> Len(threads)]
                /\ pc' = [pc EXCEPT ![p] = "assign_modify"]
                /\ loc' = [loc EXCEPT ![p].label_id = label_id, ![p].threads = threads]
    /\ before' = Earlier("assign")
    /\ UNCHANGED <<mailbox, steps, manual, failures>>

\* The loop with a check added: a thread that does not match the query any
\* more when its turn comes is passed over.
AssignModifyChecked(p) ==
    /\ pc[p] = "assign_modify"
    /\ LET thread == Head(loc[p].threads)
           rest == Tail(loc[p].threads)
           fresh == Matches(labelStore, threadLabels, AssignQuery, thread)
       IN  IF ValidIds(labelStore, {loc[p].label_id})
           THEN /\ threadLabels' = IF fresh
                                   THEN threads_modify(threadLabels, thread, {loc[p].label_id}, {})
                                   ELSE threadLabels
                /\ steps' = IF fresh THEN [steps EXCEPT ![thread] = 0] ELSE steps
                /\ IF rest = <<>>
                   THEN Leave(p, "done")
                   ELSE /\ loc' = [loc EXCEPT ![p].threads = rest]
                        /\ UNCHANGED <<pc, cur>>
           ELSE /\ Leave(p, "aborted")
                /\ UNCHANGED <<threadLabels, steps>>
    /\ UNCHANGED <<labelStore, internalDate, now, before, manual, failures>>

\* threads().modify(addLabelIds=[label_id]) for the next thread of the list.
AssignModify(p) ==
    /\ pc[p] = "assign_modify"
    /\ LET thread == Head(loc[p].threads)
           rest == Tail(loc[p].threads)
       IN  IF ValidIds(labelStore, {loc[p].label_id})
           THEN /\ threadLabels' = threads_modify(threadLabels, thread, {loc[p].label_id}, {})
                /\ steps' = [steps EXCEPT ![thread] = 0]
                /\ IF rest = <<>>
                   THEN Leave(p, "done")
                   ELSE /\ loc' = [loc EXCEPT ![p].threads = rest]
                        /\ UNCHANGED <<pc, cur>>
           ELSE /\ Leave(p, "aborted")
                /\ UNCHANGED <<threadLabels, steps>>
    /\ UNCHANGED <<labelStore, internalDate, now, before, manual, failures>>

(***************************************************************************)
(* The loop over the buckets of strip_tags_on_archived_emails and          *)
(* step_expiration: the first bucket in the order, from position k on,     *)
(* whose thread list is not empty, with that list.                         *)
(***************************************************************************)
\* The query of the pass for bucket i.
BucketQuery(op, i) == IF op = "strip" THEN StripQuery(i) ELSE StepQuery(i)

\* A loop that reads the first page of each bucket only.
BucketScanFirstPage(store, tl, op, order, k) ==
    LET page(j) == threads_list(store, tl, BucketQuery(op, order[j]), 0).threads
        hits == {j \in k..Len(order) : page(j) # <<>>}
    IN  IF hits = {} THEN [done |-> TRUE, k |-> k, threads |-> <<>>]
        ELSE LET first == CHOOSE j \in hits : \A h \in hits : j <= h
             IN  [done |-> FALSE, k |-> first, threads |-> page(first)]

RECURSIVE BucketScan(_, _, _, _, _)
BucketScan(store, tl, op, order, k) ==
    IF k > Len(order) THEN [done |-> TRUE, k |-> k, threads |-> <<>>]
    ELSE LET threads == fetch_all_threads(store, tl, BucketQuery(op, order[k]))
         IN  IF threads = <<>> THEN BucketScan(store, tl, op, order, k + 1)
             ELSE [done |-> FALSE, k |-> k, threads |-> threads]

\* The buckets from INBOX_DAYS down to 0.
BucketOrderDescending == [k \in 1..(INBOX_DAYS + 1) |-> INBOX_DAYS + 1 - k]

\* range(INBOX_DAYS + 1), and the items of day_labels(): 0, 1, ..., INBOX_DAYS.
BucketOrder == [k \in 1..(INBOX_DAYS + 1) |-> k - 1]

(***************************************************************************)
(* strip_tags_on_archived_emails (lines 107-121).                          *)
(***************************************************************************)
StripStart(p) ==
    /\ Idle(p)
    /\ LET scan == BucketScan(labelStore, threadLabels, "strip", BucketOrder, 1)
       IN  IF scan.done
           THEN /\ cur' = [op |-> "strip", status |-> "done", pre |-> Snapshot,
                         fetched |-> 0]
                /\ UNCHANGED <<pc, loc>>
           ELSE /\ cur' = [op |-> "strip", status |-> "running", pre |-> Snapshot,
                         fetched |-> Len(scan.threads)]
                /\ pc' = [pc EXCEPT ![p] = "strip_modify"]
                /\ loc' = [loc EXCEPT ![p].labels = day_labels(labelStore),
                                      ![p].k = scan.k,
                                      ![p].i = BucketOrder[scan.k],
                                      ![p].threads = scan.threads]
    /\ before' = Earlier("strip")
    /\ UNCHANGED <<mailbox, steps, manual, failures>>

\* threads().modify(removeLabelIds=[label_id]) for the next thread.
StripModify(p) ==
    /\ pc[p] = "strip_modify"
    /\ LET thread == Head(loc[p].threads)
           rest == Tail(loc[p].threads)
           label_id == loc[p].labels[loc[p].i]
       IN  IF ValidIds(labelStore, {label_id})
           THEN /\ threadLabels' = threads_modify(threadLabels, thread, {}, {label_id})
                /\ steps' = [steps EXCEPT ![thread] = -1]
                /\ IF rest # <<>>
                   THEN /\ loc' = [loc EXCEPT ![p].threads = rest]
                        /\ UNCHANGED <<pc, cur>>
                   ELSE LET scan == BucketScan(labelStore, threadLabels', "strip",
                                               BucketOrder, loc[p].k + 1)
                        IN  IF scan.done
                            THEN Leave(p, "done")
                            ELSE /\ loc' = [loc EXCEPT ![p].k = scan.k,
                                                       ![p].i = BucketOrder[scan.k],
                                                       ![p].threads = scan.threads]
                                 /\ UNCHANGED <<pc, cur>>
           ELSE /\ Leave(p, "aborted")
                /\ UNCHANGED <<threadLabels, steps>>
    /\ UNCHANGED <<labelStore, internalDate, now, before, manual, failures>>

(***************************************************************************)
(* step_expiration (lines 124-163).                                        *)
(***************************************************************************)
\* A completed step pass counts for every thread in the countdown.
StepCounted == [t \in Threads |-> IF steps[t] \in Buckets THEN steps[t] + 1 ELSE steps[t]]

StepStart(p) ==
    /\ Idle(p)
    /\ LET scan == BucketScan(labelStore, threadLabels, "step", BucketOrder, 1)
       IN  IF scan.done
           THEN /\ cur' = [op |-> "step", status |-> "done", pre |-> Snapshot,
                         fetched |-> 0]
                /\ UNCHANGED <<pc, loc>>
           ELSE /\ cur' = [op |-> "step", status |-> "running", pre |-> Snapshot,
                         fetched |-> Len(scan.threads)]
                /\ pc' = [pc EXCEPT ![p] = "step_modify"]
                /\ loc' = [loc EXCEPT ![p].labels = day_labels(labelStore),
                                      ![p].auto_label = get_label_id(labelStore, AUTO_ARCHIVED),
                                      ![p].k = scan.k,
                                      ![p].i = BucketOrder[scan.k],
                                      ![p].threads = scan.threads]
    /\ before' = Earlier("step")
    /\ UNCHANGED <<mailbox, steps, manual, failures>>

\* The thread at the head of the list is dealt with: the next thread of the
\* list, or the next bucket with threads, or the end of the pass.
StepAdvance(p) ==
    LET rest == Tail(loc[p].threads)
    IN  IF rest # <<>>
        THEN /\ loc' = [loc EXCEPT ![p].threads = rest]
             /\ pc' = [pc EXCEPT ![p] = "step_modify"]
             /\ UNCHANGED <<cur, steps>>
        ELSE LET scan == BucketScan(labelStore, threadLabels', "step",
                                    BucketOrder, loc[p].k + 1)
             IN  IF scan.done
                 THEN /\ Leave(p, "done")
                      /\ steps' = StepCounted
                 ELSE /\ loc' = [loc EXCEPT ![p].k = scan.k,
                                            ![p].i = BucketOrder[scan.k],
                                            ![p].threads = scan.threads]
                      /\ pc' = [pc EXCEPT ![p] = "step_modify"]
                      /\ UNCHANGED <<cur, steps>>

\* The first threads().modify for the next thread: x{i} is replaced by
\* auto-archived (i = 0) or by x{i-1}.
StepModify(p) ==
    /\ pc[p] = "step_modify"
    /\ LET thread == Head(loc[p].threads)
           i == loc[p].i
           label_id == loc[p].labels[i]
           target == IF i = 0 THEN loc[p].auto_label ELSE loc[p].labels[i - 1]
       IN  IF ValidIds(labelStore, {label_id, target})
           THEN /\ threadLabels' = threads_modify(threadLabels, thread, {target}, {label_id})
                /\ IF i = 0
                   THEN /\ pc' = [pc EXCEPT ![p] = "step_inbox"]
                        /\ UNCHANGED <<loc, cur, steps>>
                   ELSE StepAdvance(p)
           ELSE /\ Leave(p, "aborted")
                /\ UNCHANGED <<threadLabels, steps>>
    /\ UNCHANGED <<labelStore, internalDate, now, before, manual, failures>>

\* i = 0: the second threads().modify, removeLabelIds=["INBOX"].
StepInbox(p) ==
    /\ pc[p] = "step_inbox"
    /\ threadLabels' = threads_modify(threadLabels, Head(loc[p].threads), {}, {INBOX})
    /\ StepAdvance(p)
    /\ UNCHANGED <<labelStore, internalDate, now, before, manual, failures>>

(***************************************************************************)
(* The age annotator: append_too_old_labels (lines 233-266) with           *)
(* remove_all_age_labels, get_or_create_label and add_age_label.           *)
(***************************************************************************)
\* A pattern for names written with a space after the hourglass only.
AgeLabelReSpace(name) ==
    /\ Len(name) >= 3
    /\ name[1] = "hourglass"
    /\ name[2] = " "
    /\ \E k \in DOMAIN DigitChars : name[3] = DigitChars[k]

\* A pattern that asks for a digit anywhere in the name.
AgeLabelReDigits(name) ==
    \E j \in DOMAIN name : \E k \in DOMAIN DigitChars : name[j] = DigitChars[k]

\* re.compile(r"^<hourglass>[ /]\d+").match(name)
AgeLabelRe(name) ==
    /\ Len(name) >= 3
    /\ name[1] = "hourglass"
    /\ name[2] \in {" ", "/"}
    /\ \E k \in DOMAIN DigitChars : name[3] = DigitChars[k]

\* date_diff_in_days(d1, d2), on whole days.
date_diff_in_days(d1, d2) == d2 - d1

\* The age the annotator computes for a thread: date_diff_in_days of its
\* last message and now.
AgeOf(t) == date_diff_in_days(internalDate[t], now)

\* A division that drops the fraction.
round_down(n, d) == n \div d

\* round(n / d) of Python 3 for integers n >= 0, d > 0: the nearest
\* integer, the even one of the two when n / d lies halfway.
round(n, d) ==
    LET q == n \div d
        r == n % d
    IN  IF 2 * r < d THEN q
        ELSE IF 2 * r > d THEN q + 1
        ELSE IF q % 2 = 0 THEN q ELSE q + 1

\* age_string with the first month beginning a day late.
age_string_late(a) ==
    IF a <= 31 THEN Str(a) \o <<"d">>
    ELSE IF a < 365 THEN Str(round(a, 31)) \o <<"m">>
    ELSE Str(round(a, 365)) \o <<"y">>

\* add_age_label: age_string.
age_string(a) ==
    IF a < 31 THEN Str(a) \o <<"d">>
    ELSE IF a < 365 THEN Str(round(a, 31)) \o <<"m">>
    ELSE Str(round(a, 365)) \o <<"y">>

\* add_age_label: label_name = LABEL_PREFIX + age_string.
age_label_name(a) == LABEL_PREFIX \o age_string(a)

\* A sweep that stops after the first matching label.
matching_labels_first(store) ==
    LET matching == SelectSeq(store, LAMBDA l : AgeLabelRe(l.name))
    IN  [k \in DOMAIN matching \cap {1} |-> matching[k].id]

\* remove_all_age_labels: the identifiers of matching_labels, in list order.
matching_labels(store) ==
    LET matching == SelectSeq(store, LAMBDA l : AgeLabelRe(l.name))
    IN  [k \in DOMAIN matching |-> matching[k].id]

\* The loop of append_too_old_labels up to its next add_age_label: the
\* threads below MIN_AGE_TO_APPEND_LABEL at the head of the list are passed.
RECURSIVE AgeScan(_)
AgeScan(threads) ==
    IF threads = <<>> THEN <<>>
    ELSE IF AgeOf(Head(threads)) >= MIN_AGE_TO_APPEND_LABEL THEN threads
    ELSE AgeScan(Tail(threads))

\* The loop goes on with the given threads: the pass ends, or add_age_label
\* is entered for the next thread old enough and get_or_create_label looks
\* its label up.
AgeAdvance(p, threads) ==
    LET left == AgeScan(threads)
    IN  IF left = <<>>
        THEN Leave(p, "done")
        ELSE LET a == AgeOf(Head(left))
                 label_id == get_label_id(labelStore', age_label_name(a))
             IN  /\ loc' = [loc EXCEPT ![p].threads = left,
                                       ![p].age = a,
                                       ![p].label_id = label_id,
                                       ![p].matching_labels = <<>>,
                                       ![p].listed = labelStore']
                 /\ pc' = [pc EXCEPT ![p] = IF label_id = None THEN "age_create"
                                            ELSE "age_modify"]
                 /\ UNCHANGED cur

\* The pass is entered: remove_all_age_labels lists the labels.
AnnotateStart(p) ==
    /\ Idle(p)
    /\ cur' = [op |-> "annotate", status |-> "running", pre |-> Snapshot, fetched |-> 0]
    /\ before' = Earlier("annotate")
    /\ pc' = [pc EXCEPT ![p] = "sweep"]
    /\ loc' = [loc EXCEPT ![p].matching_labels = matching_labels(labelStore)]
    /\ UNCHANGED <<mailbox, steps, manual, failures>>

\* remove_all_age_labels: labels().delete for the next matching label; after
\* the last one, append_too_old_labels fetches the inbox threads.
SweepDelete(p) ==
    /\ pc[p] = "sweep"
    /\ loc[p].matching_labels # <<>>
    /\ LET id == Head(loc[p].matching_labels)
       IN  IF id \in LabelIds(labelStore)
           THEN /\ labelStore' = labels_delete(labelStore, id)
                /\ threadLabels' = labels_detach(threadLabels, id)
                /\ loc' = [loc EXCEPT ![p].matching_labels = Tail(@)]
                /\ UNCHANGED <<pc, cur>>
           ELSE /\ Leave(p, "aborted")
                /\ UNCHANGED <<labelStore, threadLabels>>
    /\ UNCHANGED <<internalDate, now, before, steps, manual, failures>>

\* append_too_old_labels after the sweep: fetch_all_threads("in:inbox").
AgeFetch(p) ==
    /\ pc[p] = "sweep"
    /\ loc[p].matching_labels = <<>>
    /\ UNCHANGED labelStore
    /\ AgeAdvance(p, fetch_all_threads(labelStore, threadLabels, InboxQuery))
    /\ UNCHANGED <<threadLabels, internalDate, now, before, steps, manual, failures>>

\* get_or_create_label: labels().create, the label not being listed.
AgeCreate(p) ==
    /\ pc[p] = "age_create"
    /\ labelStore' = labels_create(labelStore, age_label_name(loc[p].age))
    /\ loc' = [loc EXCEPT ![p].label_id = NewLabelId(labelStore)]
    /\ pc' = [pc EXCEPT ![p] = "age_modify"]
    /\ UNCHANGED <<threadLabels, internalDate, now, history>>

\* add_age_label: threads().modify(addLabelIds=[label_id]).
AgeModify(p) ==
    /\ pc[p] = "age_modify"
    /\ IF ValidIds(labelStore, {loc[p].label_id})
       THEN /\ threadLabels' = threads_modify(threadLabels, Head(loc[p].threads),
                                              {loc[p].label_id}, {})
            /\ UNCHANGED labelStore
            /\ AgeAdvance(p, Tail(loc[p].threads))
       ELSE /\ Leave(p, "aborted")
            /\ UNCHANGED <<labelStore, threadLabels>>
    /\ UNCHANGED <<internalDate, now, before, steps, manual, failures>>

(***************************************************************************)
(* fetch_all_threads (lines 61-85) call by call: every iteration of the    *)
(* while loop is a step, loc[p].pages keeps the responses received, and    *)
(* the page size is the one the run was given.                             *)
(***************************************************************************)
\* threads.extend(response.get("threads", [])) with a plain assignment.
extend_replacing(threads, response) == response.threads

\* threads.extend(response.get("threads", []))
extend(threads, response) == threads \o response.threads

\* The queries fetched: the inbox, the inbox without the starred threads,
\* and a bucket no thread is in.
FetchQueries == {InboxQuery, AssignQuery, StepQuery(0)}

\* threads = [], page_token = None
FetchStart(p) ==
    /\ Idle(p)
    /\ \E q \in FetchQueries :
           loc' = [loc EXCEPT ![p].query = q, ![p].threads = <<>>,
                              ![p].page_token = 0, ![p].pages = <<>>]
    /\ pc' = [pc EXCEPT ![p] = "fetch"]
    /\ cur' = [op |-> "fetch", status |-> "running", pre |-> Snapshot, fetched |-> 0]
    /\ before' = Earlier("fetch")
    /\ UNCHANGED <<mailbox, steps, manual, failures>>

\* One iteration: list, extend, take the token, break when there is none.
FetchPage(p) ==
    /\ pc[p] = "fetch"
    /\ LET response == threads_page(SearchResults(labelStore, threadLabels, loc[p].query),
                                    loc[p].maxResults, loc[p].page_token)
           threads == extend(loc[p].threads, response)
       IN  /\ loc' = [loc EXCEPT ![p].threads = threads,
                                 ![p].page_token = response.nextPageToken,
                                 ![p].pages = Append(@, response)]
           /\ IF response.nextPageToken = 0
              THEN /\ pc' = [pc EXCEPT ![p] = "fetched"]
                   /\ cur' = [cur EXCEPT !.status = "done", !.fetched = Len(threads)]
              ELSE UNCHANGED <<pc, cur>>
    /\ UNCHANGED <<mailbox, before, steps, manual, failures>>

Fetch(p) == FetchStart(p) \/ FetchPage(p)

\* Page sizes from 1 to MaxPageSize, on every mailbox of system labels.
MaxPageSize == 3

InitFetch ==
    /\ labelStore = <<>>
    /\ threadLabels \in [Threads -> SUBSET SystemLabels]
    /\ internalDate = [t \in Threads |-> 0]
    /\ now = 0
    /\ pc = [p \in Procs |-> "idle"]
    /\ \E m \in 1..MaxPageSize : loc = [p \in Procs |-> [InitLoc EXCEPT !.maxResults = m]]
    /\ cur = NoPass
    /\ before = NoPass
    /\ steps = [t \in Threads |-> -1]
    /\ manual = [t \in Threads |-> FALSE]
    /\ failures = 0

NextFetch == Fetch(Main)

SpecFetch == InitFetch /\ [][NextFetch]_vars

(***************************************************************************)
(* A transport failure: the call the pass is about to make raises, the     *)
(* exception propagates and the run halts.                                 *)
(***************************************************************************)
MaxFailures == 1

Fail(p) ==
    /\ ~Idle(p)
    /\ failures < MaxFailures
    /\ failures' = failures + 1
    /\ Leave(p, "aborted")
    /\ UNCHANGED <<mailbox, before, steps, manual>>

(***************************************************************************)
(* The world between passes: the user archives a thread by hand or stars   *)
(* one; a thread not seen so far (no label, never archived) arrives in     *)
(* the inbox.                                                              *)
(***************************************************************************)
AllIdle == \A p \in Procs : Idle(p)

UserArchive(t) ==
    /\ AllIdle
    /\ INBOX \in threadLabels[t]
    /\ threadLabels' = threads_modify(threadLabels, t, {}, {INBOX})
    /\ manual' = [manual EXCEPT ![t] = TRUE]
    /\ cur' = NoPass
    /\ before' = NoPass
    /\ UNCHANGED <<labelStore, internalDate, now, pc, loc, steps, failures>>

UserStar(t) ==
    /\ AllIdle
    /\ STARRED \notin threadLabels[t]
    /\ threadLabels' = threads_modify(threadLabels, t, {STARRED}, {})
    /\ cur' = NoPass
    /\ before' = NoPass
    /\ UNCHANGED <<labelStore, internalDate, now, pc, loc, steps, manual, failures>>

Deliver(t) ==
    /\ AllIdle
    /\ threadLabels[t] = {}
    /\ ~manual[t]
    /\ threadLabels' = threads_modify(threadLabels, t, {INBOX}, {})
    /\ cur' = NoPass
    /\ before' = NoPass
    /\ UNCHANGED <<labelStore, internalDate, now, pc, loc, steps, manual, failures>>

\* A day passes.
MaxDays == 1

DayPasses ==
    /\ AllIdle
    /\ now < MaxDays
    /\ now' = now + 1
    /\ cur' = NoPass
    /\ before' = NoPass
    /\ UNCHANGED <<labelStore, threadLabels, internalDate, pc, loc, steps, manual, failures>>

User == \E t \in Threads : UserArchive(t) \/ UserStar(t) \/ Deliver(t)

(***************************************************************************)
(* The countdown machine run sequentially, one pass at a time.             *)
(***************************************************************************)
Setup(p) == SetupStart(p) \/ SetupCreate(p)

Assign(p) == AssignStart(p) \/ AssignModify(p)

Strip(p) == StripStart(p) \/ StripModify(p)

Step(p) == StepStart(p) \/ StepModify(p) \/ StepInbox(p)

Countdown(p) == Setup(p) \/ Assign(p) \/ Strip(p) \/ Step(p)

Next == Countdown(Main) \/ User

Spec == Init /\ [][Next]_vars

\* The same, every pass entered running to its end, and step passes being
\* run again and again.
InPass ==
    \/ SetupCreate(Main)
    \/ AssignModify(Main)
    \/ StripModify(Main)
    \/ StepModify(Main)
    \/ StepInbox(Main)

StepsKeepRunning == []<><<StepStart(Main)>>_vars

SpecRepeated == Spec /\ WF_vars(InPass) /\ StepsKeepRunning

(***************************************************************************)
(* The age annotator run sequentially, day after day, on threads of        *)
(* sample ages; a run may be cut by a transport failure.                   *)
(***************************************************************************)
Annotate(p) ==
    AnnotateStart(p) \/ SweepDelete(p) \/ AgeFetch(p) \/ AgeCreate(p) \/ AgeModify(p)

\* Ages on day 0: a day below the threshold, a day below the first month.
AgeSamples == {20, 30}

InitAnnotate ==
    /\ labelStore = <<>>
    /\ threadLabels \in [Threads -> SUBSET {INBOX}]
    /\ internalDate \in [Threads -> {0 - a : a \in AgeSamples}]
    /\ now = 0
    /\ InitRun

NextAnnotate ==
    \/ Annotate(Main)
    \/ Fail(Main)
    \/ DayPasses
    \/ \E t \in Threads : UserArchive(t)

SpecAnnotate == InitAnnotate /\ [][NextAnnotate]_vars

(***************************************************************************)
(* The age annotator on one inbox thread of every age up to MaxAgeDays.    *)
(***************************************************************************)
MaxAgeDays == 800

InitClassify ==
    /\ labelStore = <<>>
    /\ threadLabels = [t \in Threads |-> IF t = 1 THEN {INBOX} ELSE {}]
    /\ \E a \in 0..MaxAgeDays : internalDate = [t \in Threads |-> 0 - a]
    /\ now = 0
    /\ InitRun

NextClassify == Annotate(Main)

SpecClassify == InitClassify /\ [][NextClassify]_vars

(***************************************************************************)
(* All passes run sequentially, any of them cut by a transport failure.    *)
(***************************************************************************)
\* The threads' ages: 30 days, 31 days, ...
InitFail ==
    /\ labelStore = <<>>
    /\ threadLabels \in [Threads -> SUBSET SystemLabels]
    /\ internalDate = [t \in Threads |-> 0 - (29 + t)]
    /\ now = 0
    /\ InitRun

NextFail ==
    \/ Countdown(Main)
    \/ Annotate(Main)
    \/ Fail(Main)
    \/ \E t \in Threads : UserArchive(t)

SpecFail == InitFail /\ [][NextFail]_vars

(***************************************************************************)
(* setup and the age annotator (get_or_create_label) run sequentially from *)
(* a store that already holds labels, no two with the same name; a run may *)
(* be cut by a transport failure.                                          *)
(***************************************************************************)
\* Names a store may hold before the first run: two bucket labels, the
\* auto-archived label, an age label and a label of the user.
SampleNames ==
    <<XName(0), XName(INBOX_DAYS), AUTO_ARCHIVED, LABEL_PREFIX \o <<"3", "0", "d">>,
      <<"w", "o", "r", "k">>>>

\* The store after labels().create for each name of the sequence.
RECURSIVE StoreOf(_)
StoreOf(names) ==
    IF names = <<>> THEN <<>>
    ELSE labels_create(StoreOf(SubSeq(names, 1, Len(names) - 1)), names[Len(names)])

InitSetup ==
    /\ \E S \in SUBSET DOMAIN SampleNames :
           labelStore = StoreOf([k \in 1..Cardinality(S) |->
                                    SampleNames[CHOOSE j \in S : Cardinality({h \in S : h < j}) = k - 1]])
    /\ threadLabels \in [Threads -> SUBSET {INBOX}]
    /\ internalDate = [t \in Threads |-> 0 - 30]
    /\ now = 0
    /\ InitRun

NextSetup ==
    \/ Setup(Main)
    \/ Annotate(Main)
    \/ Fail(Main)

SpecSetup == InitSetup /\ [][NextSetup]_vars

(***************************************************************************)
(* Two runs of the program against the same mailbox, their remote calls    *)
(* interleaved: setup and the age annotator, which resolve or create       *)
(* labels.  loc[p].listed is the label list the last lookup of p received. *)
(***************************************************************************)
\* The store is empty, or holds the labels of setup but x{N}; the first
\* thread is in the inbox.
InitRace ==
    /\ labelStore \in {<<>>, StoreOf([i \in 1..(INBOX_DAYS + 1) |->
                                         SetupName(IF i <= INBOX_DAYS THEN i - 1 ELSE i)])}
    /\ threadLabels = [t \in Threads |-> IF t = 1 THEN {INBOX} ELSE {}]
    /\ internalDate = [t \in Threads |-> 0 - 30]
    /\ now = 0
    /\ InitRun

\* The labels the store is let grow to beyond those of setup.
MaxExtraLabels == 1

NextRace ==
    /\ \E p \in Procs : Setup(p) \/ Annotate(p)
    /\ Len(labelStore') <= INBOX_DAYS + 2 + MaxExtraLabels

SpecRace == InitRace /\ [][NextRace]_vars

(***************************************************************************)
(* Two runs of the countdown machine against the same mailbox, their       *)
(* remote calls interleaved, the labels of setup being there.              *)
(***************************************************************************)
InitConcurrent ==
    /\ labelStore = StoreOf([i \in 1..(INBOX_DAYS + 2) |-> SetupName(i - 1)])
    /\ threadLabels \in [Threads -> SUBSET {INBOX}]
    /\ internalDate = [t \in Threads |-> 0]
    /\ now = 0
    /\ InitRun

NextConcurrent == \E p \in Procs : Assign(p) \/ Step(p)

SpecConcurrent == InitConcurrent /\ [][NextConcurrent]_vars

(***************************************************************************)
(* Whole passes as functions of the store, for a store in which the        *)
(* labels a pass attaches exist: what the pass leaves when every call      *)
(* succeeds.  mb is a record [store, tl].                                  *)
(***************************************************************************)
\* The loop of add_inbox_expiration over its thread list.
RECURSIVE AssignThreads(_, _, _)
AssignThreads(tl, threads, label_id) ==
    IF threads = <<>> THEN tl
    ELSE AssignThreads(threads_modify(tl, Head(threads), {label_id}, {}), Tail(threads), label_id)

AssignPass(mb) ==
    [mb EXCEPT !.tl = AssignThreads(mb.tl, fetch_all_threads(mb.store, mb.tl, AssignQuery),
                                    get_label_id(mb.store, XName(INBOX_DAYS)))]

\* The inner loop of strip_tags_on_archived_emails.
RECURSIVE StripThreads(_, _, _)
StripThreads(tl, threads, label_id) ==
    IF threads = <<>> THEN tl
    ELSE StripThreads(threads_modify(tl, Head(threads), {}, {label_id}), Tail(threads), label_id)

RECURSIVE StripBuckets(_, _, _, _)
StripBuckets(store, tl, labels, k) ==
    IF k > Len(BucketOrder) THEN tl
    ELSE LET i == BucketOrder[k]
         IN  StripBuckets(store,
                          StripThreads(tl, fetch_all_threads(store, tl, StripQuery(i)), labels[i]),
                          labels, k + 1)

StripPass(mb) == [mb EXCEPT !.tl = StripBuckets(mb.store, mb.tl, day_labels(mb.store), 1)]

\* The inner loop of step_expiration for bucket i.
RECURSIVE StepThreads(_, _, _, _, _)
StepThreads(tl, threads, i, labels, auto_label) ==
    IF threads = <<>> THEN tl
    ELSE LET thread == Head(threads)
             moved == IF i = 0
                      THEN threads_modify(
                               threads_modify(tl, thread, {auto_label}, {labels[i]}),
                               thread, {}, {INBOX})
                      ELSE threads_modify(tl, thread, {labels[i - 1]}, {labels[i]})
         IN  StepThreads(moved, Tail(threads), i, labels, auto_label)

\* The outer loop of step_expiration, the buckets taken in the given order,
\* each bucket's thread list fetched when the bucket is reached.
RECURSIVE StepBuckets(_, _, _, _, _, _)
StepBuckets(store, tl, order, k, labels, auto_label) ==
    IF k > Len(order) THEN tl
    ELSE LET i == order[k]
         IN  StepBuckets(store,
                         StepThreads(tl, fetch_all_threads(store, tl, StepQuery(i)), i,
                                     labels, auto_label),
                         order, k + 1, labels, auto_label)

StepPassIn(order, mb) ==
    [mb EXCEPT !.tl = StepBuckets(mb.store, mb.tl, order, 1, day_labels(mb.store),
                                  get_label_id(mb.store, AUTO_ARCHIVED))]

StepPass(mb) == StepPassIn(BucketOrder, mb)

\* remove_all_age_labels: every matching label deleted.
RECURSIVE SweepLabels(_, _)
SweepLabels(mb, ids) ==
    IF ids = <<>> THEN mb
    ELSE SweepLabels([store |-> labels_delete(mb.store, Head(ids)),
                      tl |-> labels_detach(mb.tl, Head(ids))], Tail(ids))

\* The loop of append_too_old_labels over its thread list.
RECURSIVE AnnotateThreads(_, _)
AnnotateThreads(mb, threads) ==
    IF threads = <<>> THEN mb
    ELSE LET thread == Head(threads)
             a == AgeOf(thread)
             found == get_label_id(mb.store, age_label_name(a))
             store == IF found = None THEN labels_create(mb.store, age_label_name(a))
                      ELSE mb.store
             label_id == IF found = None THEN NewLabelId(mb.store) ELSE found
         IN  IF a >= MIN_AGE_TO_APPEND_LABEL
             THEN AnnotateThreads([store |-> store,
                                   tl |-> threads_modify(mb.tl, thread, {label_id}, {})],
                                  Tail(threads))
             ELSE AnnotateThreads(mb, Tail(threads))

AnnotatePass(mb) ==
    LET swept == SweepLabels(mb, matching_labels(mb.store))
    IN  AnnotateThreads(swept, fetch_all_threads(swept.store, swept.tl, InboxQuery))

\* The pass of the operation, as a function of the store.
PassResult(op, mb) ==
    CASE op = "assign" -> AssignPass(mb)
      [] op = "strip" -> StripPass(mb)
      [] op = "step" -> StepPass(mb)
      [] op = "annotate" -> AnnotatePass(mb)

(***************************************************************************)
(* What the claims speak of.                                               *)
(***************************************************************************)
\* The thread holds the bucket label x{i}.
InBucket(mb, t, i) == HasLabel(mb.store, mb.tl, t, XName(i))

\* The buckets whose label the thread holds.
BucketsOf(mb, t) == {i \in Buckets : InBucket(mb, t, i)}

\* The threads holding x{i}.
Holders(mb, i) == {t \in Threads : InBucket(mb, t, i)}

\* The thread holds the auto-archived label.
AutoArchived(mb, t) == HasLabel(mb.store, mb.tl, t, AUTO_ARCHIVED)

\* The identifiers of the bucket labels of the store.
BucketIds(store) == UNION {IdsNamed(store, XName(i)) : i \in Buckets}

\* The last pass ran op and returned; nothing has happened since.
Completed(op) == AllIdle /\ cur.op = op /\ cur.status = "done"

(***************************************************************************)
(* C1.  From a mailbox without countdown labels, after any sequence of     *)
(* setup, assign-new, step and strip-on-archived passes run one at a time, *)
(* every thread holds at most one of the labels x0..xN, and no thread      *)
(* holds a bucket label together with auto-archived.                       *)
(***************************************************************************)
C1_BucketInvariant ==
    \A t \in Threads :
        /\ Cardinality(BucketsOf(Snapshot, t)) <= 1
        /\ Cardinality(threadLabels[t] \cap BucketIds(labelStore)) <= 1
        /\ ~(BucketsOf(Snapshot, t) # {} /\ AutoArchived(Snapshot, t))

\* After a step pass, one thread is in a bucket below N and another one is
\* archived.
C1_Witness ==
    /\ Completed("step")
    /\ \E t \in Threads : \E i \in 0..(INBOX_DAYS - 1) : InBucket(Snapshot, t, i)
    /\ \E t \in Threads : AutoArchived(Snapshot, t)

(***************************************************************************)
(* C2.  A completed step pass moves every thread down by exactly one       *)
(* bucket: for i in 1..N the threads holding x{i} before the pass are the  *)
(* threads holding x{i-1} after it; the threads that held x0 end holding   *)
(* auto-archived, no bucket label, and not INBOX; no thread holds x{N}     *)
(* after the pass, and a thread outside the buckets is left as it was.     *)
(***************************************************************************)
C2_ConservationUnderAdvance ==
    Completed("step") =>
        /\ \A i \in 1..INBOX_DAYS : Holders(cur.pre, i) = Holders(Snapshot, i - 1)
        /\ Holders(Snapshot, INBOX_DAYS) = {}
        /\ \A t \in Holders(cur.pre, 0) :
               /\ AutoArchived(Snapshot, t)
               /\ BucketsOf(Snapshot, t) = {}
               /\ INBOX \notin threadLabels[t]
        /\ \A t \in Threads : BucketsOf(cur.pre, t) = {} => threadLabels[t] = cur.pre.tl[t]
        /\ \A t \in Threads : Cardinality(BucketsOf(Snapshot, t)) <= 1

\* A step pass that archived one thread and moved another one down.
C2_Witness ==
    /\ Completed("step")
    /\ Holders(cur.pre, 0) # {}
    /\ \E i \in 1..INBOX_DAYS : Holders(cur.pre, i) # {}

(***************************************************************************)
(* C3.  Claimed: the result of a step pass is the same whatever the order  *)
(* in which the buckets are processed, each bucket's thread list being     *)
(* fetched when the bucket is processed.                                   *)
(***************************************************************************)
\* The orders in which the buckets can be processed.
Orders ==
    {o \in [1..(INBOX_DAYS + 1) -> Buckets] : \A j, k \in 1..(INBOX_DAYS + 1) : j # k => o[j] # o[k]}

\* The place of bucket i in the order.
Pos(o, i) == CHOOSE k \in DOMAIN o : o[k] = i

\* C3 as claimed: every order gives the state the pass reached.
C3_OrderImmaterial ==
    Completed("step") => \A o \in Orders : StepPassIn(o, cur.pre).tl = threadLabels

\* C3 as amended: an order gives the state the pass reached, processing the
\* buckets from 0 up to N, exactly when it processes bucket i-1 before
\* bucket i for every bucket i >= 1 that holds a thread; any other order
\* moves a thread by more than one bucket.
C3_OrderMatters ==
    Completed("step") =>
        \A o \in Orders :
            (StepPassIn(o, cur.pre).tl = threadLabels)
                <=> (\A i \in 1..INBOX_DAYS :
                         Holders(cur.pre, i) # {} => Pos(o, i - 1) < Pos(o, i))

\* A step pass on two occupied buckets whose result some other order gives
\* as well and the order from N down to 0 does not give.
C3_Witness ==
    /\ Completed("step")
    /\ Cardinality({i \in Buckets : Holders(cur.pre, i) # {}}) >= 2
    /\ \E o \in Orders : o # BucketOrder /\ StepPassIn(o, cur.pre).tl = threadLabels
    /\ StepPassIn(BucketOrderDescending, cur.pre).tl # threadLabels

(***************************************************************************)
(* C4.  assign-new is idempotent: a second add_inbox_expiration run right  *)
(* after a first one fetches no thread and leaves the label state the      *)
(* first run left; no thread gains a second bucket label.                  *)
(***************************************************************************)
SecondRun(op) == Completed(op) /\ before.op = op /\ before.status = "done"

\* C4: the second of two consecutive assign-new runs fetches nothing, changes
\* nothing, and leaves every thread with at most one bucket label.
C4_AssignIdempotent ==
    SecondRun("assign") =>
        /\ cur.fetched = 0
        /\ Snapshot = cur.pre
        /\ \A t \in Threads : Cardinality(threadLabels[t] \cap BucketIds(labelStore)) <= 1

\* A second run after a first run that admitted a thread.
C4_Witness ==
    /\ SecondRun("assign")
    /\ before.fetched > 0
    /\ \E t \in Threads : steps[t] = 0 /\ InBucket(Snapshot, t, INBOX_DAYS)

(***************************************************************************)
(* C5.  A completed assign-new pass attaches x{N} to exactly the threads   *)
(* that were in the inbox, not starred and without any of x0..xN when the  *)
(* pass began, and changes nothing else.                                   *)
(***************************************************************************)
Eligible(mb, t) ==
    /\ INBOX \in mb.tl[t]
    /\ STARRED \notin mb.tl[t]
    /\ BucketsOf(mb, t) = {}

\* C5: the pass gave x{N} to the threads eligible when it began, and to them
\* only, and left every other label and the label store alone.
C5_AdmissionFrame ==
    Completed("assign") =>
        /\ labelStore = cur.pre.store
        /\ \A t \in Threads :
               IF Eligible(cur.pre, t)
               THEN /\ InBucket(Snapshot, t, INBOX_DAYS)
                    /\ threadLabels[t] = cur.pre.tl[t] \cup IdsNamed(labelStore, XName(INBOX_DAYS))
               ELSE threadLabels[t] = cur.pre.tl[t]

\* A pass that admitted one thread and passed over a starred inbox thread
\* without a bucket label.
C5_Witness ==
    /\ Completed("assign")
    /\ \E t \in Threads : Eligible(cur.pre, t)
    /\ \E t \in Threads :
           /\ INBOX \in cur.pre.tl[t]
           /\ STARRED \in cur.pre.tl[t]
           /\ BucketsOf(cur.pre, t) = {}

(***************************************************************************)
(* C6.  Archival happens only through bucket 0 and on schedule: the        *)
(* program takes a thread out of the inbox, and gives it auto-archived,    *)
(* only in a step pass that is processing bucket 0 and fetched the thread  *)
(* there; after k <= N completed step passes a thread admitted at x{N}     *)
(* holds x{N-k} and has not been archived by the program, and after N+1    *)
(* it holds auto-archived and is out of the inbox; so, step passes being   *)
(* run again and again, every admitted thread is eventually archived       *)
(* (or, archived by hand, stripped of its bucket label).                   *)
(***************************************************************************)
\* C6, the schedule: between passes a thread admitted k completed step
\* passes ago holds x{N-k} alone and is not archived by the program for
\* k <= N, and holds auto-archived and is out of the inbox for k = N+1.
C6_Schedule ==
    AllIdle =>
        \A t \in Threads :
            /\ steps[t] \in Buckets =>
                   /\ BucketsOf(Snapshot, t) = {INBOX_DAYS - steps[t]}
                   /\ ~AutoArchived(Snapshot, t)
                   /\ INBOX \in threadLabels[t] \/ manual[t]
            /\ steps[t] = INBOX_DAYS + 1 =>
                   /\ AutoArchived(Snapshot, t)
                   /\ BucketsOf(Snapshot, t) = {}
                   /\ INBOX \notin threadLabels[t]
            /\ AutoArchived(Snapshot, t) => steps[t] = INBOX_DAYS + 1

\* C6, the only way out: a step of a pass that takes INBOX from a thread or
\* gives it auto-archived belongs to step_expiration processing bucket 0.
C6_ThroughBucketZero ==
    \A t \in Threads :
        (/\ ~AllIdle
         /\ \/ INBOX \in threadLabels[t] /\ INBOX \notin threadLabels'[t]
            \/ ~AutoArchived(Snapshot, t) /\ AutoArchived(Snapshot, t)')
            => /\ cur.op = "step"
               /\ loc[Main].i = 0
               /\ Head(loc[Main].threads) = t
               /\ InBucket(Snapshot, t, 0) \/ AutoArchived(Snapshot, t)

\* C6, the end: a thread in the countdown is eventually archived by the
\* program, or stripped after the user archived it.
C6_EventuallyArchived ==
    \A t \in Threads :
        (steps[t] \in Buckets) ~> (steps[t] = INBOX_DAYS + 1 \/ steps[t] = -1)

\* C6: archival happens only through bucket 0, on schedule, and, step
\* passes being run again and again, eventually.
C6_ArchivalOnSchedule ==
    /\ []C6_Schedule
    /\ [][C6_ThroughBucketZero]_vars
    /\ C6_EventuallyArchived

\* A thread admitted and archived by the step pass N+1 passes later.
C6_Witness ==
    /\ Completed("step")
    /\ \E t \in Threads :
           /\ steps[t] = INBOX_DAYS + 1
           /\ ~manual[t]
           /\ InBucket(cur.pre, t, 0)
           /\ INBOX \in cur.pre.tl[t]

(***************************************************************************)
(* C7.  After a completed strip-on-archived pass no thread outside the     *)
(* inbox holds any of x0..xN; the pass removed the bucket labels of the    *)
(* threads that were outside the inbox and changed nothing else.           *)
(***************************************************************************)
C7_StripFrame ==
    Completed("strip") =>
        /\ labelStore = cur.pre.store
        /\ \A t \in Threads :
               /\ INBOX \notin threadLabels[t] => BucketsOf(Snapshot, t) = {}
               /\ threadLabels[t] = IF INBOX \in cur.pre.tl[t] THEN cur.pre.tl[t]
                                    ELSE cur.pre.tl[t] \ BucketIds(labelStore)

\* A pass that stripped a thread archived by hand and left the bucket label
\* of an inbox thread, and the auto-archived label of an archived one.
C7_Witness ==
    /\ Completed("strip")
    /\ \E t \in Threads : INBOX \notin cur.pre.tl[t] /\ BucketsOf(cur.pre, t) # {}
    /\ \E t \in Threads :
           \/ INBOX \in cur.pre.tl[t] /\ BucketsOf(cur.pre, t) # {}
           \/ AutoArchived(cur.pre, t)

(***************************************************************************)
(* C8.  Claimed: every pass is safely re-runnable after a failure: when an *)
(* assign-new, step, strip-on-archived or annotate-ages pass is aborted by *)
(* a transport failure and the same pass is then run to completion, the    *)
(* mailbox is left as one uninterrupted run of the pass would have left    *)
(* it from the original state.                                             *)
(***************************************************************************)
\* The last pass ran op to completion right after a run of op that was
\* aborted by a transport failure.
Rerun(op) == Completed(op) /\ before.op = op /\ before.status = "aborted" /\ failures > 0

\* C8 as claimed, for the four passes: the re-run leaves the mailbox one
\* uninterrupted run would have left.
C8_EveryPassRerunnable ==
    \A op \in {"assign", "step", "strip", "annotate"} :
        Rerun(op) => Snapshot = PassResult(op, before.pre)

\* C8 as amended: assign-new, strip-on-archived and annotate-ages are
\* re-runnable in this sense; step is not (the re-run advances again the
\* threads the aborted run had advanced).
C8_RerunnableButStep ==
    \A op \in {"assign", "strip", "annotate"} :
        Rerun(op) => Snapshot = PassResult(op, before.pre)

\* A re-run of assign-new, of strip-on-archived or of annotate-ages after a
\* run that was cut after it had changed the mailbox, with work left.
RerunAfterPartial(op) == Rerun(op) /\ cur.pre # before.pre /\ Snapshot # cur.pre

\* Such a re-run of strip-on-archived.
C8_Witness == RerunAfterPartial("strip")

\* Such a re-run of assign-new.
C8_WitnessAssign == RerunAfterPartial("assign")

\* Such a re-run of annotate-ages.
C8_WitnessAnnotate == RerunAfterPartial("annotate")

\* A re-run of step that left a thread two buckets down.
C8_WitnessStep ==
    /\ Rerun("step")
    /\ \E t \in Threads : \E i \in 2..INBOX_DAYS :
           InBucket(before.pre, t, i) /\ InBucket(Snapshot, t, i - 2)

(***************************************************************************)
(* C9.  The age annotator gives a thread the label of the table: none      *)
(* below 21 days; "{age}d" from 21 to 30 days; "{round(age/31)}m" from 31  *)
(* to 364 days; "{round(age/365)}y" from 365 days on; one label for every  *)
(* age from 21 days on; and for 20, 21, 30, 31, 364, 365 days: none, 21d,  *)
(* 30d, 1m, 12m, 1y.                                                       *)
(***************************************************************************)
\* The names of the labels attached to the thread.
NamesOn(t) == {labelStore[k].name : k \in {j \in DOMAIN labelStore : labelStore[j].id \in threadLabels[t]}}

\* The integer nearest to n / d.
Nearest(n, d) ==
    CHOOSE m \in 0..(n + 1) : \A j \in 0..(n + 1) :
        (IF d * m >= n THEN d * m - n ELSE n - d * m) <= (IF d * j >= n THEN d * j - n ELSE n - d * j)

\* The table.
TableLabel(a) ==
    IF a < 21 THEN {}
    ELSE IF a < 31 THEN {LABEL_PREFIX \o Str(a) \o <<"d">>}
    ELSE IF a < 365 THEN {LABEL_PREFIX \o Str(Nearest(a, 31)) \o <<"m">>}
    ELSE {LABEL_PREFIX \o Str(Nearest(a, 365)) \o <<"y">>}

\* The boundary values.
BoundaryLabel(a) ==
    CASE a = 20 -> {}
      [] a = 21 -> {<<"hourglass", "/", "2", "1", "d">>}
      [] a = 30 -> {<<"hourglass", "/", "3", "0", "d">>}
      [] a = 31 -> {<<"hourglass", "/", "1", "m">>}
      [] a = 364 -> {<<"hourglass", "/", "1", "2", "m">>}
      [] a = 365 -> {<<"hourglass", "/", "1", "y">>}

\* C9: after a completed annotate-ages pass every inbox thread holds the
\* label of the table for its age, and nothing else of the age namespace.
C9_AgeClassification ==
    Completed("annotate") =>
        \A t \in Threads :
            INBOX \in threadLabels[t] =>
                /\ NamesOn(t) = TableLabel(AgeOf(t))
                /\ AgeOf(t) \in {20, 21, 30, 31, 364, 365} => NamesOn(t) = BoundaryLabel(AgeOf(t))
                /\ AgeOf(t) >= 21 => Cardinality(threadLabels[t] \ SystemLabels) = 1

\* An annotated inbox thread of 364 days.
C9_Witness ==
    /\ Completed("annotate")
    /\ \E t \in Threads : INBOX \in threadLabels[t] /\ AgeOf(t) = 364 /\ NamesOn(t) # {}

(***************************************************************************)
(* C10.  At every point during and after annotate-ages runs each thread    *)
(* holds at most one age label: when the sweep is over no thread holds an  *)
(* age label and none exists, and while the threads are labelled the ones  *)
(* still to come hold none.                                                *)
(***************************************************************************)
\* The identifiers of the labels of the age namespace.
AgeLabelIds(store) ==
    {store[k].id : k \in {j \in DOMAIN store : AgeLabelRe(store[j].name)}}

AgeLabelsOn(t) == threadLabels[t] \cap AgeLabelIds(labelStore)

\* The threads of a sequence.
Range(seq) == {seq[k] : k \in DOMAIN seq}

\* C10: no thread ever holds two age labels; after the sweep none is left,
\* and a thread still to be labelled holds none.
C10_OneAgeLabel ==
    /\ \A t \in Threads : Cardinality(AgeLabelsOn(t)) <= 1
    /\ \A t \in Threads : Cardinality({n \in NamesOn(t) : AgeLabelRe(n)}) <= 1
    /\ (pc[Main] = "sweep" /\ loc[Main].matching_labels = <<>>) =>
           /\ AgeLabelIds(labelStore) = {}
           /\ \A t \in Threads : threadLabels[t] \subseteq SystemLabels
    /\ pc[Main] \in {"age_create", "age_modify"} =>
           \A t \in Range(loc[Main].threads) : AgeLabelsOn(t) = {}

\* A thread that held the label of its age of the day before when the run
\* began is about to be given the label of its age.
C10_Witness ==
    /\ pc[Main] = "age_modify"
    /\ now > 0
    /\ \E k \in DOMAIN cur.pre.store :
           /\ cur.pre.store[k].id \in cur.pre.tl[Head(loc[Main].threads)]
           /\ cur.pre.store[k].name = age_label_name(loc[Main].age - 1)
           /\ cur.pre.store[k].name # age_label_name(loc[Main].age)

(***************************************************************************)
(* C11.  After a completed annotate-ages run no orphan age label exists:   *)
(* every label of the age namespace in the store is attached to an inbox   *)
(* thread whose age, as the run computed it, maps to that label, whatever  *)
(* age labels, attached or empty, existed before the run.                  *)
(***************************************************************************)
\* The label is an age label no inbox thread of that age holds.
Orphan(mb, l) ==
    /\ AgeLabelRe(l.name)
    /\ ~ \E t \in Threads :
           /\ INBOX \in mb.tl[t]
           /\ l.id \in mb.tl[t]
           /\ AgeOf(t) >= MIN_AGE_TO_APPEND_LABEL
           /\ l.name = age_label_name(AgeOf(t))

\* C11: after a completed annotate-ages run the store holds no orphan.
C11_NoOrphanAgeLabel ==
    Completed("annotate") => \A k \in DOMAIN labelStore : ~Orphan(Snapshot, labelStore[k])

\* A completed run that began with an orphan in the store and left an age
\* label on a thread.
C11_Witness ==
    /\ Completed("annotate")
    /\ \E k \in DOMAIN cur.pre.store : Orphan(cur.pre, cur.pre.store[k])
    /\ \E k \in DOMAIN labelStore : AgeLabelRe(labelStore[k].name)

\* Such a run, the orphan being attached to no thread at all.
C11_WitnessEmpty ==
    /\ Completed("annotate")
    /\ \E k \in DOMAIN cur.pre.store :
           /\ AgeLabelRe(cur.pre.store[k].name)
           /\ \A t \in Threads : cur.pre.store[k].id \notin cur.pre.tl[t]
    /\ \E k \in DOMAIN labelStore : AgeLabelRe(labelStore[k].name)

(***************************************************************************)
(* C12.  For every result set and every page size >= 1 fetch_all_threads   *)
(* returns the concatenation, in the order received, of the pages the      *)
(* store serves for the query: every matching thread once, none omitted,   *)
(* and the loop stops after the first response without a token.            *)
(***************************************************************************)
\* The threads of a sequence of responses, in the order received.
RECURSIVE Flatten(_)
Flatten(pages) ==
    IF pages = <<>> THEN <<>> ELSE Head(pages).threads \o Flatten(Tail(pages))

\* The threads matching the query of the fetch.
Matching(p) == {t \in Threads : Matches(labelStore, threadLabels, loc[p].query, t)}

\* C12: while the loop runs every response so far carried a token and the
\* list is the concatenation of the pages; when it has returned, the last
\* response and no other carried no token, and the list holds the matching
\* threads, each once, in the store's order; with the program's page size
\* this is the list the passes work on.
C12_FetchAll ==
    LET p == Main
        pages == loc[p].pages
        threads == loc[p].threads
    IN  /\ pc[p] \in {"fetch", "fetched"} =>
               /\ threads = Flatten(pages)
               /\ \A k \in 1..(Len(pages) - 1) : pages[k].nextPageToken # 0
               /\ \A k \in DOMAIN pages : Len(pages[k].threads) <= loc[p].maxResults
        /\ pc[p] = "fetch" => \A k \in DOMAIN pages : pages[k].nextPageToken # 0
        /\ pc[p] = "fetched" =>
               /\ pages # <<>>
               /\ pages[Len(pages)].nextPageToken = 0
               /\ Range(threads) = Matching(p)
               /\ Len(threads) = Cardinality(Matching(p))
               /\ threads = SearchResults(labelStore, threadLabels, loc[p].query)
               /\ loc[p].maxResults = PAGE_SIZE =>
                      threads = fetch_all_threads(labelStore, threadLabels, loc[p].query)

\* A fetch that took two pages, the last one full.
C12_Witness ==
    /\ pc[Main] = "fetched"
    /\ Len(loc[Main].pages) >= 2
    /\ Len(loc[Main].pages[Len(loc[Main].pages)].threads) = loc[Main].maxResults

\* A fetch of one page that was not full, and one of an empty result set.
C12_WitnessShort ==
    /\ pc[Main] = "fetched"
    /\ Len(loc[Main].pages) = 1
    /\ loc[Main].threads # <<>>
    /\ Len(loc[Main].threads) < loc[Main].maxResults

C12_WitnessEmpty == pc[Main] = "fetched" /\ loc[Main].threads = <<>>

(***************************************************************************)
(* C13.  setup is idempotent and keeps label names unique: after any       *)
(* number of sequential setup runs and get_or_create_label calls, from any *)
(* label set without duplicates, each of x0..xN and auto-archived exists   *)
(* exactly once, a second setup run creates no label, and no name maps to  *)
(* two identifiers.                                                        *)
(***************************************************************************)
\* No two labels of the store share a name or an identifier.
UniqueNames(store) ==
    \A j, k \in DOMAIN store :
        (store[j].name = store[k].name \/ store[j].id = store[k].id) => j = k

\* Each name of setup is the name of exactly one label.
SetupLabelsOnce(store) ==
    \A i \in 0..(INBOX_DAYS + 1) : Cardinality(IdsNamed(store, SetupName(i))) = 1

C13_Unique == UniqueNames(labelStore)

C13_Complete == Completed("setup") => SetupLabelsOnce(labelStore)

C13_Second == SecondRun("setup") => labelStore = cur.pre.store

C13_Stable == SetupLabelsOnce(labelStore) => SetupLabelsOnce(labelStore')

\* C13: names stay unique; a completed setup leaves each of its names once,
\* and they stay so through the runs that follow; a second setup run
\* changes nothing.
C13_SetupIdempotent ==
    /\ [](C13_Unique /\ C13_Complete /\ C13_Second)
    /\ [][C13_Stable]_vars

\* The place of the user's label in the store, 0 when it is not there.
UserLabelAt ==
    LET hits == {k \in DOMAIN labelStore : labelStore[k].name = SampleNames[Len(SampleNames)]}
    IN  IF hits = {} THEN 0 ELSE CHOOSE k \in hits : TRUE

\* A second setup run, the first having found some of its labels (they
\* precede the user's label) and created others (they follow it), in a
\* store that holds an age label.
C13_Witness ==
    /\ SecondRun("setup")
    /\ UserLabelAt > 0
    /\ \E k \in 1..(UserLabelAt - 1) :
           \E i \in 0..(INBOX_DAYS + 1) : labelStore[k].name = SetupName(i)
    /\ \E k \in (UserLabelAt + 1)..Len(labelStore) :
           \E i \in 0..(INBOX_DAYS + 1) : labelStore[k].name = SetupName(i)
    /\ \E k \in DOMAIN labelStore : AgeLabelRe(labelStore[k].name)

(***************************************************************************)
(* C14.  The countdown machine and the age annotator never interact:       *)
(* setup, assign-new, step and strip-on-archived never add, remove, create *)
(* or delete an age label; annotate-ages never adds, removes or deletes a  *)
(* bucket label or auto-archived and never changes INBOX membership; so an *)
(* annotate-ages run before or after a countdown pass does not change the  *)
(* countdown state the pass reaches.                                       *)
(***************************************************************************)
\* The labels of the countdown machine in the store, and the age labels.
CountdownLabels(store) ==
    {store[k] : k \in {j \in DOMAIN store :
                          \E i \in 0..(INBOX_DAYS + 1) : store[j].name = SetupName(i)}}

AgeLabels(store) == {store[k] : k \in {j \in DOMAIN store : AgeLabelRe(store[j].name)}}

\* What the countdown machine sees of a mailbox.
CountdownView(mb) ==
    [t \in Threads |-> [buckets |-> BucketsOf(mb, t),
                        archived |-> AutoArchived(mb, t),
                        inbox |-> INBOX \in mb.tl[t],
                        starred |-> STARRED \in mb.tl[t]]]

\* The identifiers the countdown machine works with.
CountdownIds == {l.id : l \in CountdownLabels(labelStore)} \cup SystemLabels

\* A step of annotate-ages leaves the countdown labels, in the store and on
\* the threads, and INBOX; a step of a countdown pass leaves the age labels.
C14_Frame ==
    /\ cur'.op = "annotate" =>
           /\ CountdownLabels(labelStore') = CountdownLabels(labelStore)
           /\ \A t \in Threads :
                  threadLabels'[t] \cap CountdownIds = threadLabels[t] \cap CountdownIds
           /\ CountdownView(Snapshot)' = CountdownView(Snapshot)
    /\ cur'.op \in {"setup", "assign", "strip", "step"} =>
           /\ AgeLabels(labelStore') = AgeLabels(labelStore)
           /\ \A t \in Threads : AgeLabelsOn(t)' = AgeLabelsOn(t)

\* Between passes, the labels of setup existing: a countdown pass reaches
\* the same countdown state with an annotate-ages run before it, or after
\* it, as without.
C14_Commutes ==
    (AllIdle /\ SetupLabelsOnce(labelStore)) =>
        \A op \in {"assign", "strip", "step"} :
            /\ CountdownView(PassResult(op, AnnotatePass(Snapshot)))
                   = CountdownView(PassResult(op, Snapshot))
            /\ CountdownView(AnnotatePass(PassResult(op, Snapshot)))
                   = CountdownView(PassResult(op, Snapshot))

\* C14: the two never interact.
C14_NoInteraction == [][C14_Frame]_vars /\ []C14_Commutes

\* An annotate-ages run that swept an age label and left one on a thread
\* that is in a bucket.
C14_Witness ==
    /\ Completed("annotate")
    /\ AgeLabels(cur.pre.store) # {}
    /\ \E t \in Threads : BucketsOf(Snapshot, t) # {} /\ AgeLabelsOn(t) # {}

\* A step pass that moved a thread holding an age label, and one that
\* archived such a thread.
C14_WitnessStep ==
    /\ Completed("step")
    /\ \E t \in Threads :
           /\ BucketsOf(cur.pre, t) # {}
           /\ BucketsOf(Snapshot, t) # BucketsOf(cur.pre, t)
           /\ AgeLabelsOn(t) # {}

C14_WitnessArchived ==
    /\ Completed("step")
    /\ \E t \in Threads : AutoArchived(Snapshot, t) /\ AgeLabelsOn(t) # {}

(***************************************************************************)
(* C15.  Resolve-or-create of a label is a check-then-create race: when    *)
(* two processes run create_label_if_missing or get_or_create_label for    *)
(* the same missing name and their list and create calls interleave, the   *)
(* store can come to hold two labels of one name; it cannot when the calls *)
(* of a process run without a call of the other in between.                *)
(***************************************************************************)
\* The step is a call of process p.
Acts(p) == pc'[p] # pc[p] \/ loc'[p] # loc[p]

\* The process is about to call labels().create.
Creating(p) == pc[p] \in {"setup_create", "age_create"}

\* The step gives a name that had a label one more label.
Duplicates(name) ==
    /\ IdsNamed(labelStore, name) # {}
    /\ Cardinality(IdsNamed(labelStore', name)) > Cardinality(IdsNamed(labelStore, name))

\* A call that gives a name a second label is a create of a process whose
\* lookup did not list the name and whose list is not the store's any more;
\* a create that follows its lookup with no call in between gives no name a
\* second label.
C15_Race ==
    \A p \in Procs :
        Acts(p) =>
            /\ \A name \in LabelNames(labelStore) :
                   Duplicates(name) =>
                       /\ Creating(p)
                       /\ get_label_id(loc[p].listed, name) = None
                       /\ loc[p].listed # labelStore
            /\ (Creating(p) /\ loc[p].listed = labelStore) =>
                   \A name \in LabelNames(labelStore') : ~Duplicates(name)

\* C15: two labels of one name come from interleaved calls only.
C15_CheckThenCreate == [][C15_Race]_vars

\* Two labels named x{N} in the store, both processes having run setup.
C15_Witness == Cardinality(IdsNamed(labelStore, XName(INBOX_DAYS))) = 2

\* Two age labels of one name, from get_or_create_label.
C15_WitnessAge ==
    \E k \in DOMAIN labelStore :
        /\ AgeLabelRe(labelStore[k].name)
        /\ Cardinality(IdsNamed(labelStore, labelStore[k].name)) = 2

(***************************************************************************)
(* C16.  Passes act on a thread list fetched up front and never re-check   *)
(* it, so concurrent runs are unsafe: an assign-new pass attaches x{N} to  *)
(* a thread of its list that another run has admitted and advanced in the  *)
(* meantime, and the thread then holds two bucket labels; two interleaved  *)
(* step runs can advance one thread by more than one bucket.               *)
(***************************************************************************)
\* Whether the thread still matches the query the list of p came from.
StillMatches(p, t) ==
    Matches(labelStore, threadLabels,
            IF pc[p] = "assign_modify" THEN AssignQuery ELSE StepQuery(loc[p].i), t)

\* A modify of assign-new or step is applied to the thread at the head of
\* the list as it is, matching or not; and a thread gets a second bucket
\* label only by such a call on a thread that has left the list's query.
C16_NoRecheck ==
    \A p \in Procs :
        Acts(p) =>
            /\ pc[p] = "assign_modify" =>
                   LET t == Head(loc[p].threads)
                   IN  threadLabels' =
                           [threadLabels EXCEPT ![t] = @ \cup {loc[p].label_id}]
            /\ pc[p] = "step_modify" =>
                   LET t == Head(loc[p].threads)
                       i == loc[p].i
                       target == IF i = 0 THEN loc[p].auto_label ELSE loc[p].labels[i - 1]
                   IN  threadLabels' =
                           [threadLabels EXCEPT ![t] = (@ \ {loc[p].labels[i]}) \cup {target}]
            /\ \A t \in Threads :
                   (/\ Cardinality(BucketsOf(Snapshot, t)) <= 1
                    /\ Cardinality(BucketsOf(Snapshot, t)') >= 2)
                       => /\ pc[p] \in {"assign_modify", "step_modify"}
                          /\ t = Head(loc[p].threads)
                          /\ ~StillMatches(p, t)

\* C16: the lists are never re-checked.
C16_StaleLists == [][C16_NoRecheck]_vars

\* A thread that another run had admitted and advanced has been given
\* x{N} by an assign-new pass, and holds two bucket labels.
C16_Witness ==
    \E t \in Threads :
        /\ InBucket(Snapshot, t, INBOX_DAYS)
        /\ \E i \in 0..(INBOX_DAYS - 1) : InBucket(Snapshot, t, i)

\* Two step runs are in their loops, none has completed since the thread
\* was admitted, and the thread is two buckets down.
C16_WitnessStep ==
    /\ \A p \in Procs : pc[p] = "step_modify"
    /\ \E t \in Threads :
           /\ steps[t] = 0
           /\ BucketsOf(Snapshot, t) = {INBOX_DAYS - 2}

(***************************************************************************)
(* C17.  Claimed: whenever no modify call is in flight, also right after a *)
(* transport failure has aborted a step pass, every thread that holds      *)
(* auto-archived is outside the inbox and holds no bucket label; so no     *)
(* later assign-new pass gives a bucket label to a thread that holds       *)
(* auto-archived.                                                          *)
(***************************************************************************)
\* C17 as claimed: between passes, auto-archived means out of the inbox and
\* out of the buckets.
C17_ArchivedOutOfInbox ==
    AllIdle =>
        \A t \in Threads :
            AutoArchived(Snapshot, t) =>
                /\ INBOX \notin threadLabels[t]
                /\ BucketsOf(Snapshot, t) = {}

\* The step pass was aborted between the two modify calls for a thread of
\* bucket 0: the thread holds auto-archived and is in the inbox.
C17_WitnessAborted ==
    /\ AllIdle
    /\ cur.op = "step"
    /\ cur.status = "aborted"
    /\ \E t \in Threads :
           /\ InBucket(cur.pre, t, 0)
           /\ AutoArchived(Snapshot, t)
           /\ INBOX \in threadLabels[t]
           /\ BucketsOf(Snapshot, t) = {}

\* An assign-new pass run later has given x{N} to a thread that holds
\* auto-archived.
C17_Witness ==
    /\ Completed("assign")
    /\ \E t \in Threads :
           /\ AutoArchived(cur.pre, t)
           /\ BucketsOf(cur.pre, t) = {}
           /\ AutoArchived(Snapshot, t)
           /\ InBucket(Snapshot, t, INBOX_DAYS)

(***************************************************************************)
(* C18.  The rounding mode never matters for age labels: for every age of  *)
(* 31 days or more, age/31 and age/365 are never halfway between two       *)
(* integers, so rounding half up and rounding half to even give the same   *)
(* number; the month number is in 1..12 for 31 <= age < 365 and the year   *)
(* number is at least 1 from 365 days on.                                  *)
(***************************************************************************)
\* n / d rounded to the nearest integer, halves up.
RoundHalfUp(n, d) == (2 * n + d) \div (2 * d)

\* n / d lies halfway between two integers.
Halfway(n, d) == 2 * (n % d) = d

\* C18: for the age of every thread, from 31 days on: no tie, the two modes
\* agree with the program's round, the numbers are in range, and a label the
\* annotator has attached carries that number.
C18_RoundingModeImmaterial ==
    \A t \in Threads :
        LET a == AgeOf(t)
        IN  a >= 31 =>
                /\ ~Halfway(a, 31) /\ ~Halfway(a, 365)
                /\ round(a, 31) = RoundHalfUp(a, 31)
                /\ round(a, 365) = RoundHalfUp(a, 365)
                /\ a < 365 => round(a, 31) \in 1..12
                /\ a >= 365 => round(a, 365) >= 1
                /\ (Completed("annotate") /\ INBOX \in threadLabels[t]) =>
                       NamesOn(t) = {LABEL_PREFIX
                                        \o (IF a < 365 THEN Str(RoundHalfUp(a, 31)) \o <<"m">>
                                            ELSE Str(RoundHalfUp(a, 365)) \o <<"y">>)}

\* An annotated thread of 548 days, the first age above a year and a half:
\* it holds the label 2y.
C18_Witness ==
    /\ Completed("annotate")
    /\ \E t \in Threads :
           /\ INBOX \in threadLabels[t]
           /\ AgeOf(t) = 548
           /\ NamesOn(t) = {<<"hourglass", "/", "2", "y">>}

\* An annotated thread of 46 days, the last age below a month and a half:
\* it holds the label 1m.
C18_WitnessMonth ==
    /\ Completed("annotate")
    /\ \E t \in Threads :
           /\ INBOX \in threadLabels[t]
           /\ AgeOf(t) = 46
           /\ NamesOn(t) = {<<"hourglass", "/", "1", "m">>}

(***************************************************************************)
(* C19.  step selects threads by bucket label alone: a thread that holds   *)
(* x{i} when bucket i is processed is advanced, or for i = 0 given         *)
(* auto-archived and taken out of the inbox, starred or not, in the inbox  *)
(* or not; only assign-new looks at the star, so a starred thread without  *)
(* a label is never labelled or archived, and a thread starred after its   *)
(* admission is counted down and archived.                                 *)
(***************************************************************************)
\* The thread holds neither a bucket label nor auto-archived.
Unlabelled(mb, t) == BucketsOf(mb, t) = {} /\ ~AutoArchived(mb, t)

\* A completed step pass advanced every thread of every bucket, and kept
\* its star and, above bucket 0, its place in or out of the inbox.
C19_Advanced ==
    Completed("step") =>
        \A t \in Threads : \A i \in Buckets :
            InBucket(cur.pre, t, i) =>
                /\ (STARRED \in threadLabels[t]) = (STARRED \in cur.pre.tl[t])
                /\ IF i = 0
                   THEN /\ AutoArchived(Snapshot, t)
                        /\ BucketsOf(Snapshot, t) = {}
                        /\ INBOX \notin threadLabels[t]
                   ELSE /\ BucketsOf(Snapshot, t) = {i - 1}
                        /\ (INBOX \in threadLabels[t]) = (INBOX \in cur.pre.tl[t])

\* No call of the program changes a starred thread that has no label.
C19_StarredLeftAlone ==
    \A t \in Threads :
        (/\ cur'.op # "none"
         /\ STARRED \in threadLabels[t]
         /\ Unlabelled(Snapshot, t))
            => threadLabels'[t] = threadLabels[t]

\* C19: step goes by the bucket label alone.
C19_LabelAlone == []C19_Advanced /\ [][C19_StarredLeftAlone]_vars

\* A step pass archived a starred thread of bucket 0, the other thread
\* being starred, in the inbox and without a label.
C19_Witness ==
    /\ Completed("step")
    /\ \E t \in Threads :
           /\ STARRED \in cur.pre.tl[t]
           /\ INBOX \in cur.pre.tl[t]
           /\ InBucket(cur.pre, t, 0)
           /\ AutoArchived(Snapshot, t)
    /\ \E t \in Threads :
           /\ STARRED \in threadLabels[t]
           /\ INBOX \in threadLabels[t]
           /\ Unlabelled(Snapshot, t)

\* A step pass advanced a thread that was outside the inbox.
C19_WitnessOutside ==
    /\ Completed("step")
    /\ \E t \in Threads : \E i \in 1..INBOX_DAYS :
           /\ INBOX \notin cur.pre.tl[t]
           /\ InBucket(cur.pre, t, i)
           /\ InBucket(Snapshot, t, i - 1)

TypeOK ==
    /\ \A t \in Threads : threadLabels[t] \subseteq (LabelIds(labelStore) \cup SystemLabels)
    /\ pc[Main] \in {"idle", "setup_create", "assign_modify", "strip_modify",
                     "step_modify", "step_inbox", "sweep", "age_create", "age_modify",
                     "fetch", "fetched"}

=============================================================================
